---- MODULE Spec2Model ----
(***************************************************************************)
(* Model of the mention/autocomplete engine of MentionTextarea             *)
(* (src/unnamed/part_000): the word locator findCurrentWord, the keyword   *)
(* occurrence scanner findAllKeywordMatches and the highlight merger of    *)
(* renderTextWithHighlights.                                               *)
(*                                                                         *)
(* A JavaScript string is a sequence of characters; a character is a       *)
(* one-element token.  JavaScript offsets are 0-based: offset i of a       *)
(* string s is s[i + 1] here.                                              *)
(***************************************************************************)
EXTENDS Integers, Sequences, FiniteSets, TLC

VARIABLES
    \* findCurrentWord(text, cursorPos) and its returned value
    text, cursorPos, wordInfo, lpc,
    \* the component's props and state read by the scanner and the renderer
    value, keywords, highlightedRange, matchResult,
    \* findAllKeywordMatches: position in the loops, and its locals
    pc, kwIdx, searchIndex, matches, keywordMatches,
    \* renderTextWithHighlights: the span list the parts are built from
    nonOverlappingHighlights,
    \* findMatches(word) and its returned value
    inputWord, matchInfo, mpc,
    \* what pinyin(text, {type: 'all'}) of the installed pinyin-pro returns
    pinyinAll,
    \* the prop isAutocompleteEnabled, the textarea's focus and selectionStart
    isAutocompleteEnabled, focused, selectionStart,
    \* the component's state showDropdown and selectedIndex
    showDropdown, selectedIndex,
    \* the live debounce timers, debounceTimerRef.current, the pending
    \* requestAnimationFrame callbacks of handleChange
    timers, debounceTimerRef, raf,
    \* the pending timers of acceptSuggestion: highlight expiry, cursor placement
    highlightTimers, cursorTimer,
    \* history: Escape has dismissed a suggestion, and since then the value and
    \* the caret are what they were
    dismissed

locVars == <<text, cursorPos, wordInfo, lpc>>
scanVars == <<value, keywords, highlightedRange, matchResult,
              pc, kwIdx, searchIndex, matches, keywordMatches,
              nonOverlappingHighlights>>
matchVars == <<inputWord, matchInfo, mpc, pinyinAll>>
ctlVars == <<isAutocompleteEnabled, focused, selectionStart, showDropdown,
             selectedIndex, timers, debounceTimerRef, raf, highlightTimers,
             cursorTimer, dismissed>>
otherVars == <<matchVars, ctlVars>>
vars == <<text, cursorPos, wordInfo, lpc,
          value, keywords, highlightedRange, matchResult,
          pc, kwIdx, searchIndex, matches, keywordMatches,
          nonOverlappingHighlights,
          inputWord, matchInfo, mpc, pinyinAll,
          isAutocompleteEnabled, focused, selectionStart, showDropdown,
          selectedIndex, timers, debounceTimerRef, raf, highlightTimers,
          cursorTimer, dismissed>>

----------------------------------------------------------------------------
(* Bounds of the model *)

\* longest enumerated buffer
MaxLen == 3
\* longest enumerated keyword list
MaxKeywords == 2
\* the highlight timers pending at a time
MaxPending == 2
\* the longest value of the textarea of the mounted component
MaxValue == 2

----------------------------------------------------------------------------
(* Characters *)

SP == " "
NL == "\n"
TAB == "\t"
CR == "\r"
\* a CJK unified ideograph, inside the range U+4E00..U+9FA5 the scanner tests for
Shen == "U+6C88"
\* another one, read "le"
Le == "U+4E50"

\* the ideographs of the examples: "zhi", "xia", "ta", "shuo", "hen", "gao"
Zhi == "U+77E5"
Xia == "U+590F"
Ta == "U+4ED6"
Shuo == "U+8BF4"
Hen == "U+5F88"
Gao == "U+9AD8"

Ideographs == {Shen, Le, Zhi, Xia, Ta, Shuo, Hen, Gao}
Punctuation == {".", ","}
WhiteSpace == {SP, NL, TAB, CR}

\* the value JavaScript returns for "no result"
NULL == [null |-> TRUE]

\* findMatches not called
MatchIdle ==
    /\ inputWord = <<>>
    /\ matchInfo = NULL
    /\ mpc = "idle"
    /\ pinyinAll = "array"

\* the component before any event: enabled, focused, nothing pending
ControlIdle ==
    /\ isAutocompleteEnabled = TRUE
    /\ focused = TRUE
    /\ selectionStart = 0
    /\ showDropdown = FALSE
    /\ selectedIndex = 0
    /\ timers = {}
    /\ debounceTimerRef = 0
    /\ raf = <<>>
    /\ highlightTimers = 0
    /\ cursorTimer = NULL
    /\ dismissed = FALSE

\* s[i] of JavaScript, for 0 <= i < s.length
At(s, i) == s[i + 1]

\* s.substring(from, to), for 0 <= from <= to <= s.length
Substring(s, from, to) == SubSeq(s, from + 1, to)

\* c.toLowerCase() of one character
CharToLower(c) ==
    CASE c = "A" -> "a"
      [] c = "B" -> "b"
      [] c = "L" -> "l"
      [] OTHER -> c

\* the capital I with a dot above, and the combining dot above
IDot == "U+0130"
DotAbove == "U+0307"

\* s.toLowerCase(): character by character, but the capital I with a dot
\* above becomes two characters (i and the combining dot above)
RECURSIVE ToLowerCase(_)
ToLowerCase(s) ==
    IF Len(s) = 0 THEN <<>>
    ELSE (IF s[1] = IDot THEN <<"i", DotAbove>> ELSE <<CharToLower(s[1])>>)
             \o ToLowerCase(Tail(s))

----------------------------------------------------------------------------
(* findCurrentWord *)

\* the characters the cursor-at-0 branch stops at (lines 67 and 69)
IsStop0(c) == c \in {SP, NL, TAB}

\* IsStop with the space forgotten
IsStop_NoSpace(c) == c \in {NL, TAB, CR}

\* the characters the general branch stops at (lines 82 and 89)
IsStop(c) == c \in {SP, NL, TAB, CR}

\* the while loop of line 69
RECURSIVE ScanEnd0(_, _)
ScanEnd0(s, end) ==
    IF end < Len(s) /\ ~IsStop0(At(s, end)) THEN ScanEnd0(s, end + 1) ELSE end

\* the while loop of line 82
RECURSIVE ScanStart(_, _)
ScanStart(s, start) ==
    IF start >= 0 /\ ~IsStop(At(s, start)) THEN ScanStart(s, start - 1) ELSE start

\* ScanEnd stopping one character early (end < text.length - 1)
RECURSIVE ScanEnd_OneShort(_, _)
ScanEnd_OneShort(s, end) ==
    IF end < Len(s) - 1 /\ ~(At(s, end) \in {SP, NL, TAB, CR})
    THEN ScanEnd_OneShort(s, end + 1) ELSE end

\* the while loop of line 89
RECURSIVE ScanEnd(_, _)
ScanEnd(s, end) ==
    IF end < Len(s) /\ ~IsStop(At(s, end)) THEN ScanEnd(s, end + 1) ELSE end

\* lines 61-62
ClampCursor(s, c) == IF c < 0 THEN 0 ELSE IF c > Len(s) THEN Len(s) ELSE c

\* lines 65-78
WordAtZero(s) ==
    IF Len(s) > 0 /\ ~IsStop0(At(s, 0))
    THEN LET end == ScanEnd0(s, 0)
             word == Substring(s, 0, end)
         IN IF Len(word) > 0 THEN [word |-> word, start |-> 0, end |-> end]
            ELSE NULL
    ELSE NULL

\* WordAround slicing the word up to the cursor instead of up to end
WordAround_SliceToCursor(s, c) ==
    LET start == ScanStart(s, c - 1) + 1
        end == ScanEnd(s, c)
        word == Substring(s, start, c)
    IN IF Len(word) = 0 THEN NULL
       ELSE [word |-> word, start |-> start, end |-> end]

\* WordAround without the empty-word test of line 94
WordAround_NoEmptyTest(s, c) ==
    LET start == ScanStart(s, c - 1) + 1
        end == ScanEnd(s, c)
    IN [word |-> Substring(s, start, end), start |-> start, end |-> end]

\* lines 80-96
WordAround(s, c) ==
    LET start == ScanStart(s, c - 1) + 1
        end == ScanEnd(s, c)
        word == Substring(s, start, end)
    IN IF Len(word) = 0 THEN NULL
       ELSE [word |-> word, start |-> start, end |-> end]

findCurrentWord(s, c0) ==
    IF Len(s) = 0 THEN NULL
    ELSE LET c == ClampCursor(s, c0)
         IN IF c = 0 THEN WordAtZero(s) ELSE WordAround(s, c)

----------------------------------------------------------------------------
(* Inputs of the locator *)

\* all sequences over S of length at most n
RECURSIVE SeqsUpTo(_, _)
SeqsUpTo(S, n) ==
    IF n = 0 THEN {<<>>}
    ELSE LET shorter == SeqsUpTo(S, n - 1)
         IN shorter \cup {Append(s, c) : s \in {t \in shorter : Len(t) = n - 1}, c \in S}

LocAlphabet == {"a", "b", SP, NL, TAB, CR}

AbCd == <<"a", "b", SP, "c", "d">>

LocBuffers == SeqsUpTo(LocAlphabet, MaxLen) \cup {AbCd}

InitLocate ==
    /\ text \in LocBuffers
    /\ cursorPos \in (-1)..(Len(text) + 1)
    /\ wordInfo = NULL
    /\ lpc = "call"
    /\ value = <<>>
    /\ keywords = <<>>
    /\ highlightedRange = NULL
    /\ matchResult = NULL
    /\ pc = "idle"
    /\ kwIdx = 0
    /\ searchIndex = 0
    /\ matches = <<>>
    /\ keywordMatches = <<>>
    /\ nonOverlappingHighlights = <<>>
    /\ MatchIdle
    /\ ControlIdle

\* one call of findCurrentWord(text, cursorPos)
FindCurrentWord ==
    /\ lpc = "call"
    /\ wordInfo' = findCurrentWord(text, cursorPos)
    /\ lpc' = "returned"
    /\ UNCHANGED <<text, cursorPos>>
    /\ UNCHANGED scanVars
    /\ UNCHANGED otherVars

NextLocate == FindCurrentWord

SpecLocate == InitLocate /\ [][NextLocate]_vars

----------------------------------------------------------------------------
(* findAllKeywordMatches *)

\* the test of line 259: the name holds a character of U+4E00..U+9FA5
IsChinese(name) == \E i \in 1..Len(name) : name[i] \in Ideographs

\* /[\s\n\t\r\p{P}]/u.test(c), line 289
IsBoundaryChar(c) == c \in WhiteSpace \cup Punctuation

SetMin(S) == CHOOSE x \in S : \A y \in S : x <= y

\* s.indexOf(k, from): the first offset >= from (clamped into [0, s.length])
\* where k occurs in s, or -1; the empty k occurs at every offset
IndexOf(s, k, from) ==
    LET first == IF from < 0 THEN 0 ELSE IF from > Len(s) THEN Len(s) ELSE from
        found == {i \in first..(Len(s) - Len(k)) : Substring(s, i, i + Len(k)) = k}
    IN IF found = {} THEN -1 ELSE SetMin(found)

\* lines 265 and 283: the next occurrence of the keyword's name, searched
\* literally for a name with an ideograph and ignoring case otherwise
NextIndex(s, name, from) ==
    IF IsChinese(name) THEN IndexOf(s, name, from)
    ELSE IndexOf(ToLowerCase(s), ToLowerCase(name), from)

\* IsPushed with the word-boundary test applied to every name
IsPushed_BoundaryAlways(s, name, index) ==
    LET beforeChar == IF index > 0 THEN At(s, index - 1) ELSE SP
        afterChar == IF index + Len(name) < Len(s)
                     THEN At(s, index + Len(name)) ELSE SP
    IN \/ IsBoundaryChar(beforeChar) /\ IsBoundaryChar(afterChar)
       \/ index = 0
       \/ index + Len(name) = Len(s)

\* lines 286-295: whether the occurrence at index is pushed
IsPushed(s, name, index) ==
    IF IsChinese(name) THEN TRUE
    ELSE LET beforeChar == IF index > 0 THEN At(s, index - 1) ELSE SP
             afterChar == IF index + Len(name) < Len(s)
                          THEN At(s, index + Len(name)) ELSE SP
             isWordBoundary == IsBoundaryChar(beforeChar) /\ IsBoundaryChar(afterChar)
             isAtStart == index = 0
             isAtEnd == index + Len(name) = Len(s)
         IN isWordBoundary \/ isAtStart \/ isAtEnd

\* Overlaps without its first test (the candidate starting inside the
\* existing span)
Overlaps_NoStartInside(m, existing) ==
    \/ (m.end > existing.start /\ m.end <= existing.end)
    \/ (m.start <= existing.start /\ m.end >= existing.end)

\* the overlap test of lines 315-317, 616-618, 632-634 and 643-645
Overlaps(m, existing) ==
    \/ (m.start >= existing.start /\ m.start < existing.end)
    \/ (m.end > existing.start /\ m.end <= existing.end)
    \/ (m.start <= existing.start /\ m.end >= existing.end)

\* InsertByStart putting the element before the ones of the same start
InsertByStart_BeforeEqual(sorted, m) ==
    LET k == Cardinality({i \in 1..Len(sorted) : sorted[i].start < m.start})
    IN SubSeq(sorted, 1, k) \o <<m>> \o SubSeq(sorted, k + 1, Len(sorted))

\* one insertion of a stable sort by start: after every element whose start
\* is not greater
InsertByStart(sorted, m) ==
    LET k == Cardinality({i \in 1..Len(sorted) : sorted[i].start <= m.start})
    IN SubSeq(sorted, 1, k) \o <<m>> \o SubSeq(sorted, k + 1, Len(sorted))

\* array.sort((a, b) => a.start - b.start), a stable sort (lines 309, 626, 655)
RECURSIVE SortByStart(_)
SortByStart(s) ==
    IF s = <<>> THEN <<>>
    ELSE InsertByStart(SortByStart(SubSeq(s, 1, Len(s) - 1)), s[Len(s)])

\* lines 312-323: keep a match unless it overlaps one kept before it
RECURSIVE RemoveOverlapping(_)
RemoveOverlapping(s) ==
    IF s = <<>> THEN <<>>
    ELSE LET nonOverlapping == RemoveOverlapping(SubSeq(s, 1, Len(s) - 1))
             match == s[Len(s)]
         IN IF \E i \in 1..Len(nonOverlapping) : Overlaps(match, nonOverlapping[i])
            THEN nonOverlapping
            ELSE Append(nonOverlapping, match)

\* the scan of one name cannot push more than one match per offset of the
\* buffer; the model stops a scan that has pushed more than every name could
PushCap == Len(value) * Len(keywords) + 2

\* lines 268-272 and 296-300: the match pushed for the occurrence at offset i
SpanAt(keyword, i) ==
    [start |-> i, end |-> i + Len(keyword.name), keyword |-> keyword]

\* lines 252-256: the early return, or the start of the first keyword's scan
FindAllStart ==
    /\ pc = "start"
    /\ IF Len(value) = 0 \/ Len(keywords) = 0
       THEN /\ pc' = "found"
            /\ keywordMatches' = <<>>
            /\ UNCHANGED <<kwIdx, searchIndex>>
       ELSE /\ pc' = "scan"
            /\ kwIdx' = 1
            /\ searchIndex' = 0
            /\ UNCHANGED keywordMatches
    /\ matches' = <<>>
    /\ UNCHANGED <<value, keywords, highlightedRange, matchResult,
                   nonOverlappingHighlights>>
    /\ UNCHANGED locVars
    /\ UNCHANGED otherVars

\* lines 264-275 and 282-304: one iteration of the while loop that finds an
\* occurrence
ScanHit ==
    /\ pc = "scan"
    /\ Len(matches) < PushCap
    /\ LET keyword == keywords[kwIdx]
           index == NextIndex(value, keyword.name, searchIndex)
       IN /\ index # -1
          /\ matches' =
                IF IsPushed(value, keyword.name, index)
                THEN Append(matches, SpanAt(keyword, index))
                ELSE matches
          /\ searchIndex' = index + 1
    /\ UNCHANGED <<value, keywords, highlightedRange, matchResult,
                   pc, kwIdx, keywordMatches, nonOverlappingHighlights>>
    /\ UNCHANGED locVars
    /\ UNCHANGED otherVars

\* lines 266 and 284: the break, followed by the next keyword of the for loop
ScanNextKeyword ==
    /\ pc = "scan"
    /\ kwIdx < Len(keywords)
    /\ NextIndex(value, keywords[kwIdx].name, searchIndex) = -1
    /\ kwIdx' = kwIdx + 1
    /\ searchIndex' = 0
    /\ UNCHANGED <<value, keywords, highlightedRange, matchResult,
                   pc, matches, keywordMatches, nonOverlappingHighlights>>
    /\ UNCHANGED locVars
    /\ UNCHANGED otherVars

\* the break of the last keyword's scan, then lines 308-325: sort, remove
\* the overlapping matches, return
ScanReturn ==
    /\ pc = "scan"
    /\ kwIdx = Len(keywords)
    /\ NextIndex(value, keywords[kwIdx].name, searchIndex) = -1
    /\ keywordMatches' = RemoveOverlapping(SortByStart(matches))
    /\ pc' = "found"
    /\ UNCHANGED <<value, keywords, highlightedRange, matchResult,
                   kwIdx, searchIndex, matches, nonOverlappingHighlights>>
    /\ UNCHANGED locVars
    /\ UNCHANGED otherVars

FindAllKeywordMatches == FindAllStart \/ ScanHit \/ ScanNextKeyword \/ ScanReturn

----------------------------------------------------------------------------
(* Inputs of the scanner *)

Keyword(name) == [name |-> name]

Ann == <<"A", "n", "n">>
AnnualReport ==
    <<"A", "n", "n", "u", "a", "l", SP, "r", "e", "p", "o", "r", "t">>

ShenZhixia == <<Shen, Zhi, Xia>>

\* the buffer of the example of the scan without boundaries
TaShuo == <<Ta, Shuo, Shen, Zhi, Xia, Hen, Gao>>

\* a buffer whose lower-case form is longer than the buffer
IDotAb == <<IDot, "a", "b">>

ScanAlphabet == {"a", "A", SP, ".", Shen}

ScanNames == {<<>>, <<"a">>, <<"A", "a">>, <<Shen>>, <<Shen, Shen>>}

ScanIdle ==
    /\ text = <<>>
    /\ cursorPos = 0
    /\ wordInfo = NULL
    /\ lpc = "idle"
    /\ highlightedRange = NULL
    /\ matchResult = NULL
    /\ pc = "start"
    /\ kwIdx = 0
    /\ searchIndex = 0
    /\ matches = <<>>
    /\ keywordMatches = <<>>
    /\ nonOverlappingHighlights = <<>>
    /\ MatchIdle
    /\ ControlIdle

InitScan ==
    /\ \/ /\ value \in SeqsUpTo(ScanAlphabet, MaxLen)
          /\ keywords \in SeqsUpTo({Keyword(n) : n \in ScanNames}, MaxKeywords)
       \/ /\ value = AnnualReport
          /\ keywords = <<Keyword(Ann)>>
       \/ /\ value = TaShuo
          /\ keywords = <<Keyword(ShenZhixia)>>
       \/ /\ value = IDotAb
          /\ keywords = <<Keyword(<<"a">>)>>
    /\ ScanIdle

NextScan == FindAllKeywordMatches

SpecScan == InitScan /\ [][NextScan]_vars

----------------------------------------------------------------------------
(* renderTextWithHighlights: the highlight list of lines 594-655 *)

\* KeywordHighlights without the test of lines 614-620
KeywordHighlights_NoSkip(found, current) ==
    [i \in 1..Len(found) |->
        [start |-> found[i].start, end |-> found[i].end, isKeyword |-> TRUE]]

\* lines 611-623: the keyword matches that do not overlap the word being
\* typed, as highlights
KeywordHighlights(found, current) ==
    LET Kept(match) == ~(current # NULL /\ Overlaps(match, current))
        kept == SelectSeq(found, Kept)
    IN [i \in 1..Len(kept) |->
           [start |-> kept[i].start, end |-> kept[i].end, isKeyword |-> TRUE]]

\* lines 604-626: the completion highlight, then the keyword highlights,
\* sorted by start
AllHighlights(found, range, current) ==
    SortByStart(
        (IF range # NULL
         THEN <<[start |-> range.start, end |-> range.end, isKeyword |-> FALSE]>>
         ELSE <<>>)
        \o KeywordHighlights(found, current))

\* RemoveOverlappingHighlights without the replacement of lines 640-650
RECURSIVE RemoveOverlappingHighlights_NoReplace(_)
RemoveOverlappingHighlights_NoReplace(all) ==
    IF all = <<>> THEN <<>>
    ELSE LET kept == RemoveOverlappingHighlights_NoReplace(SubSeq(all, 1, Len(all) - 1))
             highlight == all[Len(all)]
         IN IF \E i \in 1..Len(kept) : Overlaps(highlight, kept[i])
            THEN kept
            ELSE Append(kept, highlight)

\* lines 629-652: keep a highlight that overlaps none kept before it; a
\* keyword highlight that overlaps takes the place of the first kept highlight
\* it overlaps when that one is the completion highlight
RECURSIVE RemoveOverlappingHighlights(_)
RemoveOverlappingHighlights(all) ==
    IF all = <<>> THEN <<>>
    ELSE LET kept == RemoveOverlappingHighlights(SubSeq(all, 1, Len(all) - 1))
             highlight == all[Len(all)]
             hit == {i \in 1..Len(kept) : Overlaps(highlight, kept[i])}
         IN IF hit = {} THEN Append(kept, highlight)
            ELSE IF highlight.isKeyword /\ ~kept[SetMin(hit)].isKeyword
                 THEN [kept EXCEPT ![SetMin(hit)] = highlight]
                 ELSE kept

\* lines 595-655: the highlights the parts are built from
Highlights(buffer, found, range, current) ==
    IF Len(buffer) = 0 /\ current = NULL THEN <<>>
    ELSE SortByStart(RemoveOverlappingHighlights(AllHighlights(found, range, current)))

\* the spans a piece of state can hold: null, or start < end within the bound
StateRanges == {NULL} \cup {r \in [start : 0..MaxLen, end : 0..MaxLen] : r.start < r.end}

\* one render: findAllKeywordMatches(value) has returned (line 601); the
\* render reads highlightedRange and matchResult as the last accept and the
\* last timer left them, whatever they are
RenderTextWithHighlights ==
    /\ pc = "found"
    /\ \E range \in StateRanges, current \in StateRanges :
        /\ highlightedRange' = range
        /\ matchResult' = current
        /\ nonOverlappingHighlights' = Highlights(value, keywordMatches, range, current)
    /\ pc' = "rendered"
    /\ UNCHANGED <<value, keywords, kwIdx, searchIndex, matches, keywordMatches>>
    /\ UNCHANGED locVars
    /\ UNCHANGED otherVars

RenderAlphabet == {"a", SP, Shen}

RenderNames == {<<"a">>, <<Shen>>, <<"a", Shen>>, <<Shen, "a">>}

InitRender ==
    /\ value \in SeqsUpTo(RenderAlphabet, MaxLen)
    /\ keywords \in SeqsUpTo({Keyword(n) : n \in RenderNames}, MaxKeywords)
    /\ ScanIdle

NextRender == FindAllKeywordMatches \/ RenderTextWithHighlights

SpecRender == InitRender /\ [][NextRender]_vars

----------------------------------------------------------------------------
(* toPinyin, getFirstCharPinyin, matchesKeyword *)

\* pinyin(c, {toneType: 'none'}) of one character: the reading of an
\* ideograph, any other character as it is
Romanized(c) ==
    CASE c = Shen -> <<"s", "h", "e", "n">>
      [] c = Le -> <<"l", "e">>
      [] c = Zhi -> <<"z", "h", "i">>
      [] c = Xia -> <<"x", "i", "a">>
      [] c = Ta -> <<"t", "a">>
      [] c = Shuo -> <<"s", "h", "u", "o">>
      [] c = Hen -> <<"h", "e", "n">>
      [] c = Gao -> <<"g", "a", "o">>
      [] OTHER -> <<c>>

\* the readings of the characters of s, joined
RECURSIVE RomanizedAll(_)
RomanizedAll(s) ==
    IF s = <<>> THEN <<>> ELSE Romanized(s[1]) \o RomanizedAll(Tail(s))

\* s.replace(/\s+/g, '')
StripSpaces(s) ==
    LET NotSpace(c) == c \notin WhiteSpace IN SelectSeq(s, NotSpace)

\* s.trim()
RECURSIVE Trim(_)
Trim(s) ==
    IF s = <<>> THEN s
    ELSE IF s[1] \in WhiteSpace THEN Trim(Tail(s))
    ELSE IF s[Len(s)] \in WhiteSpace THEN Trim(SubSeq(s, 1, Len(s) - 1))
    ELSE s

\* s.startsWith(prefix)
StartsWith(s, prefix) ==
    Len(prefix) <= Len(s) /\ SubSeq(s, 1, Len(prefix)) = prefix

\* lines 100-106: with type 'all' an array comes back, toLowerCase throws and
\* the catch returns the lower-cased text; a string is lower-cased and stripped
toPinyin(s) ==
    IF pinyinAll = "array" THEN ToLowerCase(s)
    ELSE StripSpaces(ToLowerCase(RomanizedAll(s)))

\* lines 109-117
getFirstCharPinyin(s) ==
    IF Len(s) = 0 THEN <<>> ELSE ToLowerCase(Romanized(s[1]))

\* lines 120-158
matchesKeyword(input, keyword) ==
    IF Len(input) = 0 \/ Len(keyword) = 0 THEN FALSE
    ELSE LET trimmedInput == Trim(input)
             lowerInput == ToLowerCase(trimmedInput)
             lowerKeyword == ToLowerCase(keyword)
             keywordPinyin == toPinyin(keyword)
             firstCharPinyin == getFirstCharPinyin(keyword)
         IN IF Len(trimmedInput) = 0 THEN FALSE
            ELSE \/ StartsWith(lowerKeyword, lowerInput) /\ lowerKeyword # lowerInput
                 \/ keyword[1] = trimmedInput[1]
                 \/ Len(keywordPinyin) > 0 /\ StartsWith(keywordPinyin, lowerInput)
                 \/ Len(firstCharPinyin) > 0 /\ StartsWith(firstCharPinyin, lowerInput)

----------------------------------------------------------------------------
(* findMatches *)

\* the letters in alphabetical order
Letters == <<"a", "b", "c", "d", "e", "h", "l", "n", "o", "p", "r", "s", "t", "u", "x">>

\* the first level of the collation: punctuation and space, then the letters
\* whatever their case, then the ideographs
PrimaryWeight(c) ==
    LET at == {i \in 1..Len(Letters) : Letters[i] = CharToLower(c)}
    IN IF at # {} THEN SetMin(at)
       ELSE IF c = Le THEN Len(Letters) + 1
       ELSE IF c = Shen THEN Len(Letters) + 2
       ELSE IF c \in Ideographs THEN Len(Letters) + 3
       ELSE 0

\* the case level of the collation: lower case before upper case
CaseWeight(c) == IF CharToLower(c) # c THEN 1 ELSE 0

\* the order of two sequences of weights: -1, 0 or 1
RECURSIVE LexCompare(_, _)
LexCompare(x, y) ==
    IF x = <<>> /\ y = <<>> THEN 0
    ELSE IF x = <<>> THEN -1
    ELSE IF y = <<>> THEN 1
    ELSE IF x[1] < y[1] THEN -1
    ELSE IF x[1] > y[1] THEN 1
    ELSE LexCompare(Tail(x), Tail(y))

\* a.localeCompare(b): by letters first, by case among equal letters
LocaleCompare(a, b) ==
    LET first == LexCompare([i \in 1..Len(a) |-> PrimaryWeight(a[i])],
                            [i \in 1..Len(b) |-> PrimaryWeight(b[i])])
    IN IF first # 0 THEN first
       ELSE LexCompare([i \in 1..Len(a) |-> CaseWeight(a[i])],
                       [i \in 1..Len(b) |-> CaseWeight(b[i])])

\* s[0]?.toLowerCase()
FirstLower(s) == IF Len(s) = 0 THEN "undefined" ELSE CharToLower(s[1])

\* CompareMatches with the length test reversed (b.name.length - a.name.length)
CompareMatches_LongerFirst(a, b, w) ==
    LET lowerWord == ToLowerCase(w)
        aPrefixMatch == StartsWith(ToLowerCase(a.name), lowerWord)
        bPrefixMatch == StartsWith(ToLowerCase(b.name), lowerWord)
        aFirstChar == FirstLower(a.name) = FirstLower(w)
        bFirstChar == FirstLower(b.name) = FirstLower(w)
        aPinyinMatch == StartsWith(toPinyin(a.name), lowerWord)
        bPinyinMatch == StartsWith(toPinyin(b.name), lowerWord)
    IN IF aPrefixMatch /\ ~bPrefixMatch THEN -1
       ELSE IF ~aPrefixMatch /\ bPrefixMatch THEN 1
       ELSE IF aFirstChar /\ ~bFirstChar THEN -1
       ELSE IF ~aFirstChar /\ bFirstChar THEN 1
       ELSE IF aPinyinMatch /\ ~bPinyinMatch THEN -1
       ELSE IF ~aPinyinMatch /\ bPinyinMatch THEN 1
       ELSE IF Len(a.name) # Len(b.name) THEN Len(b.name) - Len(a.name)
       ELSE LocaleCompare(a.name, b.name)

\* the comparator of lines 180-210
CompareMatches(a, b, w) ==
    LET lowerWord == ToLowerCase(w)
        aPrefixMatch == StartsWith(ToLowerCase(a.name), lowerWord)
        bPrefixMatch == StartsWith(ToLowerCase(b.name), lowerWord)
        aFirstChar == FirstLower(a.name) = FirstLower(w)
        bFirstChar == FirstLower(b.name) = FirstLower(w)
        aPinyinMatch == StartsWith(toPinyin(a.name), lowerWord)
        bPinyinMatch == StartsWith(toPinyin(b.name), lowerWord)
    IN IF aPrefixMatch /\ ~bPrefixMatch THEN -1
       ELSE IF ~aPrefixMatch /\ bPrefixMatch THEN 1
       ELSE IF aFirstChar /\ ~bFirstChar THEN -1
       ELSE IF ~aFirstChar /\ bFirstChar THEN 1
       ELSE IF aPinyinMatch /\ ~bPinyinMatch THEN -1
       ELSE IF ~aPinyinMatch /\ bPinyinMatch THEN 1
       ELSE IF Len(a.name) # Len(b.name) THEN Len(a.name) - Len(b.name)
       ELSE LocaleCompare(a.name, b.name)

\* one insertion of the stable sort: after every element that does not
\* compare greater
InsertMatch(sorted, m, w) ==
    LET k == Cardinality({i \in 1..Len(sorted) : CompareMatches(sorted[i], m, w) <= 0})
    IN SubSeq(sorted, 1, k) \o <<m>> \o SubSeq(sorted, k + 1, Len(sorted))

\* matches.sort(comparator), line 180: a stable sort
RECURSIVE SortMatches(_, _)
SortMatches(s, w) ==
    IF s = <<>> THEN <<>>
    ELSE InsertMatch(SortMatches(SubSeq(s, 1, Len(s) - 1), w), s[Len(s)], w)

\* MatchingKeywords keeping only the first keyword of each name
MatchingKeywords_DistinctNames(w, kws) ==
    LET firsts == {i \in 1..Len(kws) :
                     /\ matchesKeyword(w, kws[i].name)
                     /\ \A j \in 1..(i - 1) : kws[j].name # kws[i].name}
        Nth(n) == CHOOSE i \in firsts : Cardinality({j \in firsts : j < i}) = n - 1
    IN [n \in 1..Cardinality(firsts) |-> kws[Nth(n)]]

\* lines 164-171: the keywords that match, in the order of the list
MatchingKeywords(w, kws) ==
    LET Matches(keyword) == matchesKeyword(w, keyword.name)
    IN SelectSeq(kws, Matches)

\* Math.min
Min(a, b) == IF a < b THEN a ELSE b

\* Suffix taking everything after the first character in every case
Suffix_AfterFirst(w, bestMatch) ==
    Substring(bestMatch.name, 1, Len(bestMatch.name))

\* lines 214-238
Suffix(w, bestMatch) ==
    LET lowerWord == ToLowerCase(w)
        lowerKeyword == ToLowerCase(bestMatch.name)
        n == Len(bestMatch.name)
    IN IF StartsWith(lowerKeyword, lowerWord)
       THEN Substring(bestMatch.name, Min(Len(w), n), n)
       ELSE IF bestMatch.name[1] = w[1]
       THEN Substring(bestMatch.name, 1, n)
       ELSE Substring(bestMatch.name, Min(Len(w), n), n)

\* lines 161-248
findMatches(w, kws) ==
    IF Len(w) = 0 \/ Len(kws) = 0 THEN NULL
    ELSE LET list == SortMatches(MatchingKeywords(w, kws), w)
         IN IF Len(list) = 0 THEN NULL
            ELSE [currentWord |-> w, start |-> 0, end |-> 0, matches |-> list,
                  bestMatch |-> list[1], suffix |-> Suffix(w, list[1])]

----------------------------------------------------------------------------
(* Inputs of the matcher *)

Leah == <<"L", "e", "a", "h">>
Leo == <<"L", "e", "o">>

MatchAlphabet == {"l", "L", "e", Le}

MatchNames == {<<>>, <<"l">>, <<"L", "e">>, <<"l", "e", "e">>, <<Le>>, <<Le, "e">>}

LocIdle ==
    /\ text = <<>>
    /\ cursorPos = 0
    /\ wordInfo = NULL
    /\ lpc = "idle"

ScanOff ==
    /\ pc = "idle"
    /\ kwIdx = 0
    /\ searchIndex = 0
    /\ matches = <<>>
    /\ keywordMatches = <<>>
    /\ nonOverlappingHighlights = <<>>

InitMatch ==
    /\ \/ /\ inputWord \in SeqsUpTo(MatchAlphabet, MaxLen)
          /\ keywords \in SeqsUpTo({Keyword(n) : n \in MatchNames}, MaxKeywords)
       \/ /\ inputWord = <<"L", "e">>
          /\ keywords = <<Keyword(Leah), Keyword(Leo)>>
       \/ /\ inputWord = <<Shen>>
          /\ keywords = <<Keyword(ShenZhixia)>>
    /\ pinyinAll \in {"array", "string"}
    /\ matchInfo = NULL
    /\ mpc = "call"
    /\ value = <<>>
    /\ highlightedRange = NULL
    /\ matchResult = NULL
    /\ LocIdle
    /\ ScanOff
    /\ ControlIdle

\* one call of findMatches(inputWord)
FindMatches ==
    /\ mpc = "call"
    /\ matchInfo' = findMatches(inputWord, keywords)
    /\ mpc' = "returned"
    /\ UNCHANGED <<inputWord, pinyinAll>>
    /\ UNCHANGED <<locVars, scanVars, ctlVars>>

NextMatch == FindMatches

SpecMatch == InitMatch /\ [][NextMatch]_vars

----------------------------------------------------------------------------
(* The component: checkMatches, the handlers and the timers *)

\* Resolve with the fragment taken at the end of the buffer
Resolve_AtEnd(buf, pos) ==
    LET info == findCurrentWord(buf, Len(buf))
    IN IF info = NULL THEN NULL
       ELSE IF Len(info.word) < 1 THEN NULL
       ELSE LET result == findMatches(info.word, keywords)
            IN IF result = NULL THEN NULL
               ELSE [result EXCEPT !.start = info.start, !.end = info.end]

\* lines 349-374: what the timer callback computes for a buffer and a cursor
Resolve(buf, pos) ==
    LET info == findCurrentWord(buf, pos)
    IN IF info = NULL THEN NULL
       ELSE IF Len(info.word) < 1 THEN NULL
       ELSE LET result == findMatches(info.word, keywords)
            IN IF result = NULL THEN NULL
               ELSE [result EXCEPT !.start = info.start, !.end = info.end]

\* line 380 with the dropdown kept for more than two matches
ShowsDropdown_MoreThanTwo(result) == Len(result.matches) > 2

\* line 380
ShowsDropdown(result) == Len(result.matches) > 1

\* textareaRef.current.selectionStart || cursorPos, lines 351 and 423
ActualCursorPos(captured) == IF selectionStart # 0 THEN selectionStart ELSE captured

\* setTimeout returns a handle no other timer has. Handles are opaque, so
\* they are counted from the newest: the timer just set has handle 1 and the
\* timers still pending move up by one
Older(ts) == {[t EXCEPT !.id = t.id + 1] : t \in ts}

\* checkMatches without the clearTimeout of lines 343-345 and 335-338
Cleared_Nothing(ts) == ts

\* clearTimeout(debounceTimerRef.current), lines 335-338 and 343-345
Cleared(ts) == {t \in ts : t.id # debounceTimerRef}

\* lines 330-382: checkMatches(text, pos) of the render whose
\* isAutocompleteEnabled is enabled (text is read nowhere), with the timers ts
\* pending and frames animation-frame callbacks requested before this call and
\* still to run (a timer of 300 ms fires after them); by is the caller, line
\* 424 or line 446
checkMatches(enabled, pos, ts, frames, by) ==
    IF ~enabled
    THEN /\ matchResult' = NULL
         /\ showDropdown' = FALSE
         /\ timers' = Cleared(ts)
         /\ debounceTimerRef' = 0
    ELSE /\ timers' = Older(Cleared(ts)) \cup
                {[id |-> 1, cursorPos |-> pos, after |-> frames, by |-> by]}
         /\ debounceTimerRef' = 1
         /\ UNCHANGED <<matchResult, showDropdown>>

\* a frame is shorter than the time between two events of the user: the
\* frame callback of a change has run when the next event arrives
FrameDone == raf = <<>>

\* the timer of line 487 has no delay: it runs before the next event of the
\* user reaches the component, as the frame callback does
Settled == cursorTimer = NULL /\ FrameDone

\* the characters typed in the component
CtlAlphabet == {"l"}

\* lines 407-428, for one character typed at the cursor
TypeChar ==
    \E c \in CtlAlphabet :
        LET newValue == Substring(value, 0, selectionStart) \o <<c>> \o
                        Substring(value, selectionStart, Len(value))
        IN /\ Len(newValue) <= MaxValue
           /\ value' = newValue
           /\ selectionStart' = selectionStart + 1
           /\ raf' = Append(raf, [cursorPos |-> selectionStart + 1,
                                  enabled |-> isAutocompleteEnabled])

\* lines 407-428, for the character before the cursor deleted
DeleteChar ==
    LET newValue == Substring(value, 0, selectionStart - 1) \o
                    Substring(value, selectionStart, Len(value))
    IN /\ selectionStart > 0
       /\ value' = newValue
       /\ selectionStart' = selectionStart - 1
       /\ raf' = Append(raf, [cursorPos |-> selectionStart - 1,
                              enabled |-> isAutocompleteEnabled])

\* lines 407-428: the change event of the textarea; the parent stores the value
HandleChange ==
    /\ Settled
    /\ focused
    /\ FrameDone
    /\ TypeChar \/ DeleteChar
    /\ dismissed' = FALSE
    /\ UNCHANGED <<keywords, highlightedRange, matchResult, isAutocompleteEnabled,
                   focused, showDropdown, selectedIndex, timers, debounceTimerRef,
                   highlightTimers, cursorTimer>>
    /\ UNCHANGED <<locVars, matchVars, pc, kwIdx, searchIndex, matches, keywordMatches,
                   nonOverlappingHighlights>>

\* a timer one frame nearer to its time
Aged(t) == [t EXCEPT !.after = IF t.after > 0 THEN t.after - 1 ELSE 0]

\* lines 421-426: the animation-frame callback of a change, which calls the
\* checkMatches of the render the change happened in
AnimationFrame ==
    /\ raf # <<>>
    /\ checkMatches(Head(raf).enabled, ActualCursorPos(Head(raf).cursorPos),
                    {Aged(t) : t \in timers}, Len(raf) - 1, "handleChange")
    /\ raf' = Tail(raf)
    /\ UNCHANGED <<value, keywords, highlightedRange, isAutocompleteEnabled, focused,
                   selectionStart, selectedIndex, highlightTimers, cursorTimer, dismissed>>
    /\ UNCHANGED <<locVars, matchVars, pc, kwIdx, searchIndex, matches, keywordMatches,
                   nonOverlappingHighlights>>

\* what the handlers of the component leave alone
restVars ==
    <<locVars, matchVars, keywords, pc, kwIdx, searchIndex, matches, keywordMatches,
      nonOverlappingHighlights>>

\* the caret put somewhere else: a keydown, a mousedown or a drag, before the
\* keyup or mouseup that the component listens to
MoveCursor ==
    /\ Settled
    /\ focused
    /\ \E p \in 0..Len(value) :
        /\ p # selectionStart
        /\ selectionStart' = p
    /\ dismissed' = FALSE
    /\ UNCHANGED <<value, highlightedRange, matchResult, isAutocompleteEnabled, focused,
                   showDropdown, selectedIndex, timers, debounceTimerRef, raf,
                   highlightTimers, cursorTimer>>
    /\ UNCHANGED restVars

\* lines 445-448: handleSelectionChange, on mouseup, keyup and click
HandleSelectionChange ==
    /\ Settled
    /\ focused
    /\ checkMatches(isAutocompleteEnabled, selectionStart, timers, Len(raf),
                    "handleSelectionChange")
    /\ UNCHANGED <<value, highlightedRange, isAutocompleteEnabled, focused,
                   selectionStart, selectedIndex, raf, highlightTimers, cursorTimer, dismissed>>
    /\ UNCHANGED restVars

\* the parent passes the other value of isAutocompleteEnabled (line 45): the
\* component renders again and runs nothing else; the render may come between
\* a change and its frame callback
ToggleAutocomplete ==
    /\ cursorTimer = NULL
    /\ isAutocompleteEnabled' = ~isAutocompleteEnabled
    /\ UNCHANGED <<value, highlightedRange, matchResult, focused, selectionStart,
                   showDropdown, selectedIndex, timers, debounceTimerRef, raf,
                   highlightTimers, cursorTimer, dismissed>>
    /\ UNCHANGED restVars

\* line 798: the blur event goes to the onBlur of the parent and nowhere else
Blur ==
    /\ Settled
    /\ focused
    /\ focused' = FALSE
    /\ UNCHANGED <<value, highlightedRange, matchResult, isAutocompleteEnabled,
                   selectionStart, showDropdown, selectedIndex, timers,
                   debounceTimerRef, raf, highlightTimers, cursorTimer, dismissed>>
    /\ UNCHANGED restVars

\* the textarea focused again; no handler listens (lines 792-807)
Focus ==
    /\ Settled
    /\ ~focused
    /\ focused' = TRUE
    /\ UNCHANGED <<value, highlightedRange, matchResult, isAutocompleteEnabled,
                   selectionStart, showDropdown, selectedIndex, timers,
                   debounceTimerRef, raf, highlightTimers, cursorTimer, dismissed>>
    /\ UNCHANGED restVars

\* lines 348-381: the callback of the debounce timer; the ref keeps the handle
TimerFire ==
    /\ \E t \in timers :
        /\ t.after = 0
        /\ timers' = timers \ {t}
        /\ LET result == Resolve(value, ActualCursorPos(t.cursorPos))
           IN IF result = NULL
              THEN /\ matchResult' = NULL
                   /\ showDropdown' = FALSE
                   /\ UNCHANGED selectedIndex
              ELSE /\ matchResult' = result
                   /\ selectedIndex' = 0
                   /\ showDropdown' = ShowsDropdown(result)
    /\ UNCHANGED <<value, highlightedRange, isAutocompleteEnabled, focused,
                   selectionStart, debounceTimerRef, raf, highlightTimers, cursorTimer, dismissed>>
    /\ UNCHANGED restVars

\* Spliced keeping the fragment after the inserted name
Spliced_FragmentKept(buf, result, keyword) ==
    Substring(buf, 0, ClampCursor(buf, result.start)) \o keyword.name \o <<SP>>
        \o Substring(buf, ClampCursor(buf, result.start), Len(buf))

\* lines 469-471: the new value; substring clamps its offsets into the buffer
Spliced(buf, result, keyword) ==
    LET before == Substring(buf, 0, ClampCursor(buf, result.start))
        after == Substring(buf, ClampCursor(buf, result.end), Len(buf))
    IN before \o keyword.name \o <<SP>> \o after

\* lines 463-494: acceptSuggestion(keyword); the value set from outside leaves
\* the caret at its end until the timer of line 487 runs. The new value may
\* be one character longer than what can be typed
acceptSuggestion(keyword) ==
    LET newValue == Spliced(value, matchResult, keyword)
    IN /\ matchResult # NULL
       /\ Len(newValue) <= MaxValue + 1
       /\ highlightTimers < MaxPending
       /\ Settled
       /\ value' = newValue
       /\ selectionStart' = Len(newValue)
       /\ highlightedRange' = [start |-> matchResult.start,
                               end |-> matchResult.start + Len(keyword.name)]
       /\ highlightTimers' = highlightTimers + 1
       /\ matchResult' = NULL
       /\ showDropdown' = FALSE
       /\ dismissed' = FALSE
       /\ cursorTimer' = [pos |-> matchResult.start + Len(keyword.name) + 1]
       /\ UNCHANGED <<isAutocompleteEnabled, focused, selectedIndex, timers,
                      debounceTimerRef, raf>>
       /\ UNCHANGED restVars

\* lines 529-534: Tab with a match result
Tab ==
    /\ focused
    /\ matchResult # NULL
    /\ acceptSuggestion(matchResult.bestMatch)

\* lines 549-555: Enter in the dropdown; an index past the list falls back to
\* bestMatch (line 466)
Enter ==
    /\ focused
    /\ matchResult # NULL
    /\ showDropdown
    /\ Len(matchResult.matches) > 0
    /\ acceptSuggestion(IF selectedIndex < Len(matchResult.matches)
                        THEN matchResult.matches[selectedIndex + 1]
                        ELSE matchResult.bestMatch)

\* lines 567-569 and 810-820: a click on a row of the dropdown
HandleSuggestionClick ==
    /\ showDropdown
    /\ matchResult # NULL
    /\ Len(matchResult.matches) > 1
    /\ \E i \in 1..Len(matchResult.matches) : acceptSuggestion(matchResult.matches[i])

\* ArrowDown stopping at nothing
ArrowDown_NoWrap(prev, n) == prev + 1

\* line 540: the index ArrowDown selects among n matches
ArrowDown(prev, n) == (prev + 1) % n

\* line 546: the index ArrowUp selects among n matches
ArrowUp(prev, n) == (prev - 1 + n) % n

\* lines 537-547: ArrowDown and ArrowUp in the dropdown
Arrow ==
    /\ Settled
    /\ focused
    /\ matchResult # NULL
    /\ showDropdown
    /\ \/ selectedIndex' = ArrowDown(selectedIndex, Len(matchResult.matches))
       \/ selectedIndex' = ArrowUp(selectedIndex, Len(matchResult.matches))
    /\ UNCHANGED <<value, highlightedRange, matchResult, isAutocompleteEnabled, focused,
                   selectionStart, showDropdown, timers, debounceTimerRef, raf,
                   highlightTimers, cursorTimer, dismissed>>
    /\ UNCHANGED restVars

\* lines 557-562
Escape ==
    /\ Settled
    /\ focused
    /\ matchResult # NULL
    /\ matchResult' = NULL
    /\ showDropdown' = FALSE
    /\ dismissed' = TRUE
    /\ UNCHANGED <<value, highlightedRange, isAutocompleteEnabled, focused,
                   selectionStart, selectedIndex, timers, debounceTimerRef, raf,
                   highlightTimers, cursorTimer>>
    /\ UNCHANGED restVars

\* lines 479-481: the 500 ms timer of the completion highlight
HighlightExpire ==
    /\ highlightTimers > 0
    /\ highlightTimers' = highlightTimers - 1
    /\ highlightedRange' = NULL
    /\ UNCHANGED <<value, matchResult, isAutocompleteEnabled, focused, selectionStart,
                   showDropdown, selectedIndex, timers, debounceTimerRef, raf,
                   cursorTimer, dismissed>>
    /\ UNCHANGED restVars

\* lines 487-493: the caret put after the completed word, and the focus
PlaceCursor ==
    /\ cursorTimer # NULL
    /\ selectionStart' = ClampCursor(value, cursorTimer.pos)
    /\ focused' = TRUE
    /\ cursorTimer' = NULL
    /\ dismissed' = FALSE
    /\ UNCHANGED <<value, highlightedRange, matchResult, isAutocompleteEnabled,
                   showDropdown, selectedIndex, timers, debounceTimerRef, raf,
                   highlightTimers>>
    /\ UNCHANGED restVars

\* line 713: the suffix of the match is drawn as ghost text
GhostShown == matchResult # NULL /\ ~showDropdown /\ Len(matchResult.suffix) > 0

\* line 810: the dropdown is drawn
DropdownShown == showDropdown /\ matchResult # NULL /\ Len(matchResult.matches) > 1

\* the keyword lists the component is shown with: one keyword for what is
\* typed, or two
CtlKeywords ==
    {<<Keyword(<<"l", "l">>)>>, <<Keyword(<<"l", "l">>), Keyword(<<"l">>)>>}

\* the component mounted with an empty value (lines 52-56)
Init ==
    /\ value = <<>>
    /\ keywords \in CtlKeywords
    /\ highlightedRange = NULL
    /\ matchResult = NULL
    /\ LocIdle
    /\ ScanOff
    /\ MatchIdle
    /\ ControlIdle

Next ==
    \/ HandleChange
    \/ AnimationFrame
    \/ MoveCursor
    \/ HandleSelectionChange
    \/ ToggleAutocomplete
    \/ Blur
    \/ Focus
    \/ TimerFire
    \/ Tab
    \/ Enter
    \/ HandleSuggestionClick
    \/ Arrow
    \/ Escape
    \/ HighlightExpire
    \/ PlaceCursor

Spec == Init /\ [][Next]_vars

----------------------------------------------------------------------------
(* Claims about findCurrentWord, checked under SpecLocate *)

\* the four delimiters of the word locator's contract
Delimiters == {SP, NL, TAB, CR}

\* the cursor clamped into [0, len(buffer)]
Clamped == IF cursorPos < 0 THEN 0
           ELSE IF cursorPos > Len(text) THEN Len(text) ELSE cursorPos

Returned == lpc = "returned"
HasFragment == Returned /\ wordInfo # NULL

\* C1: a returned fragment contains no space, tab, newline or carriage
\* return, whatever the buffer and the cursor (cursor 0 included).
C1_FragmentHasNoDelimiter ==
    HasFragment => \A i \in 1..Len(wordInfo.word) : wordInfo.word[i] \notin Delimiters

\* C2: the result is null or a fragment with 0 <= start < end <= len(buffer),
\* text = buffer[start:end] and start <= clamped cursor <= end.
C2_FragmentBounds ==
    HasFragment =>
        /\ 0 <= wordInfo.start
        /\ wordInfo.start < wordInfo.end
        /\ wordInfo.end <= Len(text)
        /\ wordInfo.word = SubSeq(text, wordInfo.start + 1, wordInfo.end)
        /\ wordInfo.start <= Clamped
        /\ Clamped <= wordInfo.end

\* a fragment was returned for a cursor beyond the end of the buffer
C2_Witness == HasFragment /\ cursorPos > Len(text)

\* the cursor sits right after the last character of a word
AtWordEnd ==
    /\ Clamped >= 1
    /\ text[Clamped] \notin Delimiters
    /\ (Clamped = Len(text) \/ text[Clamped + 1] \in Delimiters)

\* C3: with the cursor right after the last character of a word the result is
\* that whole word: it ends at the cursor, holds no delimiter and starts at
\* the buffer start or right after a delimiter; "ab cd" with cursor 2 gives
\* {text: "ab", start: 0, end: 2}.
C3_WholeWordAtWordEnd ==
    /\ Returned /\ AtWordEnd =>
        /\ wordInfo # NULL
        /\ wordInfo.end = Clamped
        /\ wordInfo.start < wordInfo.end
        /\ wordInfo.word = SubSeq(text, wordInfo.start + 1, wordInfo.end)
        /\ \A i \in (wordInfo.start + 1)..wordInfo.end : text[i] \notin Delimiters
        /\ (wordInfo.start = 0 \/ text[wordInfo.start] \in Delimiters)
    /\ Returned /\ text = AbCd /\ cursorPos = 2 =>
        wordInfo = [word |-> <<"a", "b">>, start |-> 0, end |-> 2]

C3_Witness == Returned /\ text = AbCd /\ cursorPos = 2 /\ wordInfo # NULL

\* C4 as stated: for "ab cd" and cursor 3 the result is null.
C4_NullAtCursor3 ==
    Returned /\ text = AbCd /\ cursorPos = 3 => wordInfo = NULL

\* C4 amended: for "ab cd" and cursor 3 (right before "cd") the result is
\* the fragment {text: "cd", start: 3, end: 5}.
C4_WordAfterSpace ==
    Returned /\ text = AbCd /\ cursorPos = 3 =>
        wordInfo = [word |-> <<"c", "d">>, start |-> 3, end |-> 5]

C4_Witness == Returned /\ text = AbCd /\ cursorPos = 3 /\ wordInfo # NULL

\* the cursor sits between two delimiters, or at the buffer end after one
BetweenDelimiters ==
    /\ Clamped >= 1
    /\ text[Clamped] \in Delimiters
    /\ (Clamped = Len(text) \/ text[Clamped + 1] \in Delimiters)

\* the character before or at the cursor is a non-delimiter
TouchesWord ==
    \/ Clamped >= 1 /\ text[Clamped] \notin Delimiters
    \/ Clamped < Len(text) /\ text[Clamped + 1] \notin Delimiters

\* C5: the result is null for the empty buffer and when the cursor sits
\* between two delimiters or at the buffer end right after a delimiter; it is
\* a fragment whenever the character before or at the cursor is a
\* non-delimiter.
C5_NullExactlyOffWords ==
    /\ Returned /\ (Len(text) = 0 \/ BetweenDelimiters) => wordInfo = NULL
    /\ Returned /\ TouchesWord => wordInfo # NULL

C5_Witness ==
    /\ Returned /\ BetweenDelimiters /\ Clamped < Len(text) /\ wordInfo = NULL

----------------------------------------------------------------------------
(* Claims about findAllKeywordMatches, checked under SpecScan *)

\* what the whole-word rule allows next to a match: whitespace or punctuation
WordBreaks == {SP, NL, TAB, CR, ".", ","}

\* C6: a returned span of a keyword without ideographs is a whole word: the
\* character before it and the character after it are each absent or
\* whitespace/punctuation; "Annual report" with keyword "Ann" has no span.
C6_WholeWordOnly ==
    /\ pc = "found" =>
        \A i \in 1..Len(keywordMatches) :
            LET m == keywordMatches[i]
            IN ~(\E j \in 1..Len(m.keyword.name) : m.keyword.name[j] \in Ideographs) =>
                /\ (m.start = 0 \/ value[m.start] \in WordBreaks)
                /\ (m.end = Len(value) \/ value[m.end + 1] \in WordBreaks)
    /\ pc = "found" /\ value = AnnualReport /\ keywords = <<Keyword(Ann)>> =>
        keywordMatches = <<>>

\* C7: the scanner terminates for every buffer and keyword list, a keyword
\* with the empty name included.  The loop's next iteration is a function of
\* the keyword and searchIndex alone, so a scan that terminates never ends an
\* iteration with both as they were at its start.
C7_ScanAdvances ==
    [][pc = "scan" /\ pc' = "scan" =>
        <<kwIdx', searchIndex'>> # <<kwIdx, searchIndex>>]_vars

----------------------------------------------------------------------------
(* Claims about the highlight list, checked under SpecRender *)

Rendered == pc = "rendered"

\* half-open intervals that intersect
Intersect(a, b) == a.start < b.end /\ b.start < a.end

\* the keyword candidates of the merge: the scanner's spans that the word
\* being typed does not exclude
Candidates ==
    {keywordMatches[i] : i \in {j \in 1..Len(keywordMatches) :
        matchResult = NULL \/ ~Intersect(keywordMatches[j], matchResult)}}

IsShown(span, kw) ==
    \E i \in 1..Len(nonOverlappingHighlights) :
        /\ nonOverlappingHighlights[i].start = span.start
        /\ nonOverlappingHighlights[i].end = span.end
        /\ nonOverlappingHighlights[i].isKeyword = kw

\* C8: the highlight list is sorted ascending by start and no two of its
\* spans intersect as half-open intervals.
C8_SortedNonOverlapping ==
    Rendered =>
        \A i, j \in 1..Len(nonOverlappingHighlights) :
            i < j =>
                /\ nonOverlappingHighlights[i].start <= nonOverlappingHighlights[j].start
                /\ ~Intersect(nonOverlappingHighlights[i], nonOverlappingHighlights[j])

\* a completion highlight that covers a keyword span was merged with it
C8_Witness ==
    /\ Rendered /\ highlightedRange # NULL
    /\ Len(nonOverlappingHighlights) >= 2
    /\ \E i \in 1..Len(keywordMatches) :
        /\ highlightedRange.start < keywordMatches[i].start
        /\ keywordMatches[i].end < highlightedRange.end

\* C9: a keyword candidate that intersects the completion highlight is in the
\* list and the completion highlight is not, whichever starts first; the
\* completion highlight is in the list only if it intersects no candidate.
C9_KeywordWins ==
    Rendered /\ highlightedRange # NULL =>
        /\ \A c \in Candidates : IsShown(c, TRUE)
        /\ (\E c \in Candidates : Intersect(c, highlightedRange))
              => ~IsShown(highlightedRange, FALSE)
        \* an empty buffer with no MatchResult renders nothing at all (line 595)
        /\ (\A c \in Candidates : ~Intersect(c, highlightedRange))
              /\ ~(Len(value) = 0 /\ matchResult = NULL)
              => IsShown(highlightedRange, FALSE)

\* the completion highlight starts first and a keyword span replaced it
C9_Witness ==
    /\ Rendered /\ highlightedRange # NULL
    /\ \E c \in Candidates :
        /\ highlightedRange.start < c.start
        /\ Intersect(c, highlightedRange)
        /\ IsShown(c, TRUE)

\* C10: while a MatchResult is active no keyword span of the list intersects
\* the interval of the word being typed.
C10_TypingNotHighlighted ==
    Rendered /\ matchResult # NULL =>
        \A i \in 1..Len(nonOverlappingHighlights) :
            nonOverlappingHighlights[i].isKeyword =>
                ~Intersect(nonOverlappingHighlights[i], matchResult)

\* a keyword occurrence under the word being typed was left out, another shown
C10_Witness ==
    /\ Rendered /\ matchResult # NULL
    /\ \E i \in 1..Len(keywordMatches) : Intersect(keywordMatches[i], matchResult)
    /\ \E i \in 1..Len(nonOverlappingHighlights) : nonOverlappingHighlights[i].isKeyword

----------------------------------------------------------------------------
(* Claims about matchesKeyword and findMatches, checked under SpecMatch *)

MatchReturned == mpc = "returned"

\* the names of the keywords findMatches offers
Offered ==
    IF matchInfo = NULL THEN {}
    ELSE {matchInfo.matches[i].name : i \in 1..Len(matchInfo.matches)}

\* C17: a non-empty fragment and a keyword name whose first characters are
\* equal ignoring case always match, whatever follows the first character
C17_FirstCharIgnoresCase ==
    MatchReturned =>
        \A i \in 1..Len(keywords) :
            LET name == keywords[i].name
            IN (/\ Len(inputWord) > 0
                /\ Len(name) > 0
                /\ CharToLower(name[1]) = CharToLower(inputWord[1]))
               => (matchesKeyword(inputWord, name) /\ name \in Offered)

\* C18: a keyword whose full name equals the fragment ignoring case is not
\* among the matches of findMatches for that fragment
C18_FullNameNotReoffered ==
    MatchReturned =>
        \A i \in 1..Len(keywords) :
            (/\ Len(inputWord) > 0
             /\ ToLowerCase(keywords[i].name) = ToLowerCase(inputWord))
            => keywords[i].name \notin Offered

\* how many entries of the list s are the keyword k
Count(s, k) == Cardinality({i \in 1..Len(s) : s[i] = k})

\* the entries of the keyword list that satisfy the matcher for inputWord
Satisfying == {i \in 1..Len(keywords) : matchesKeyword(inputWord, keywords[i].name)}

\* C19: findMatches returns null exactly when the fragment is empty or no
\* keyword satisfies the matcher; otherwise matches is non-empty, holds every
\* satisfying entry of the keyword list as often as the list holds it and
\* nothing else, no entry with an empty name, and bestMatch is matches[0]
C19_MatchesAreTheSatisfying ==
    MatchReturned =>
        /\ (matchInfo = NULL) <=> (Len(inputWord) = 0 \/ Satisfying = {})
        /\ matchInfo # NULL =>
            /\ Len(matchInfo.matches) > 0
            /\ Len(matchInfo.matches) = Cardinality(Satisfying)
            /\ \A i \in 1..Len(keywords) :
                  Count(matchInfo.matches, keywords[i]) =
                      IF i \in Satisfying THEN Count(keywords, keywords[i]) ELSE 0
            /\ \A j \in 1..Len(matchInfo.matches) :
                  /\ Len(matchInfo.matches[j].name) > 0
                  /\ Count(keywords, matchInfo.matches[j]) > 0
            /\ matchInfo.bestMatch = matchInfo.matches[1]

\* two keywords of the same name are both offered
C19_Witness ==
    /\ MatchReturned
    /\ matchInfo # NULL
    /\ Len(matchInfo.matches) = 2
    /\ matchInfo.matches[1].name = matchInfo.matches[2].name

\* the rank of a keyword for the fragment: prefix, first character, phonetic
\* prefix (0 when it holds), then the length of the name
Rank(k) ==
    <<IF StartsWith(ToLowerCase(k.name), ToLowerCase(inputWord)) THEN 0 ELSE 1,
      IF CharToLower(k.name[1]) = CharToLower(inputWord[1]) THEN 0 ELSE 1,
      IF StartsWith(toPinyin(k.name), ToLowerCase(inputWord)) THEN 0 ELSE 1,
      Len(k.name)>>

\* a does not come after b in the order of the ranker
InOrder(a, b) ==
    \/ LexCompare(Rank(a), Rank(b)) < 0
    \/ LexCompare(Rank(a), Rank(b)) = 0 /\ LocaleCompare(a.name, b.name) <= 0

\* C20: matches is ordered by prefix match, then first-character match, then
\* phonetic-prefix match, then shorter name, then name; the keywords Leah, Leo
\* with the fragment Le give matches Leo, Leah, bestMatch Leo and suffix "o"
C20_MatchesRanked ==
    (MatchReturned /\ matchInfo # NULL) =>
        /\ \A i, j \in 1..Len(matchInfo.matches) :
              i < j => InOrder(matchInfo.matches[i], matchInfo.matches[j])
        /\ (keywords = <<Keyword(Leah), Keyword(Leo)>> /\ inputWord = <<"L", "e">>) =>
              /\ matchInfo.matches = <<Keyword(Leo), Keyword(Leah)>>
              /\ matchInfo.bestMatch = Keyword(Leo)
              /\ matchInfo.suffix = <<"o">>

\* the example has been computed
C20_Witness ==
    /\ MatchReturned
    /\ keywords = <<Keyword(Leah), Keyword(Leo)>>
    /\ inputWord = <<"L", "e">>
    /\ matchInfo # NULL
    /\ Len(matchInfo.matches) = 2

----------------------------------------------------------------------------
(* Claims about the debounce timer and the dropdown, checked under Spec *)

\* C11: at most one debounce timer is pending, and it is the one whose handle
\* the ref holds: every call of checkMatches cancels the timer before
C11_OneTimerLive ==
    /\ Cardinality(timers) <= 1
    /\ \A t \in timers : t.id = debounceTimerRef

\* a timer is pending after an earlier one has fired and resolved a result
C11_Witness ==
    /\ Cardinality(timers) = 1
    /\ matchResult # NULL

\* a step of the callback of the debounce timer: a timer goes and none comes,
\* the ref and the frame callbacks stay
TimerFires ==
    /\ timers' # timers
    /\ timers' \subseteq timers
    /\ debounceTimerRef' = debounceTimerRef
    /\ raf' = raf

\* C12: of a burst of changes only the timer of the last change fires, on the
\* value of the last change: the timer of a change is cancelled by the change
\* that arrives while it is pending, so it never fires while a later change
\* still waits to set its own timer
C12_BurstCollapses ==
    [][(TimerFires /\ \E t \in timers \ timers' : t.by = "handleChange")
          => raf = <<>>]_vars

\* C13: when the timer fires the result is computed from the value and the
\* caret of that moment, at every offset, 0 included
C13_LiveCursorAtFire == [][TimerFires => matchResult' = Resolve(value, selectionStart)]_vars

\* C14: while autocomplete is off no timer is pending and no match result or
\* dropdown is present
C14_DisabledIsIdle ==
    ~isAutocompleteEnabled => (timers = {} /\ matchResult = NULL /\ ~showDropdown)

\* C15: the step that takes the focus away leaves no timer pending and no
\* match result or dropdown
C15_BlurClears ==
    [][(focused /\ ~focused') => (timers' = {} /\ matchResult' = NULL /\ ~showDropdown')]_vars

\* C16: the dropdown is open exactly when there is a match result with more
\* than one match, and ghost text is drawn only for exactly one match
C16_DropdownOrGhost ==
    /\ showDropdown <=> (matchResult # NULL /\ Len(matchResult.matches) > 1)
    /\ DropdownShown <=> (matchResult # NULL /\ Len(matchResult.matches) > 1)
    /\ GhostShown => Len(matchResult.matches) = 1

\* the dropdown is open with two matches
C16_Witness ==
    /\ DropdownShown
    /\ Len(matchResult.matches) = 2
    /\ ~GhostShown

----------------------------------------------------------------------------
(* Claims about the suffix of findMatches, checked under SpecMatch *)

\* C21: the suffix follows the first rule that applies: the name after the
\* length of the fragment when the name starts with the fragment ignoring
\* case (fragment and suffix then have the length of the name), else the name
\* after its first character when the first characters are the same, else the
\* name after min(len(fragment), len(name)); the fragment of one ideograph
\* that starts a keyword of three gives the other two
C21_SuffixByFirstRule ==
    (MatchReturned /\ matchInfo # NULL) =>
        LET name == matchInfo.bestMatch.name
            n == Len(name)
            k == Len(inputWord)
        IN /\ IF StartsWith(ToLowerCase(name), ToLowerCase(inputWord))
              THEN /\ matchInfo.suffix = SubSeq(name, k + 1, n)
                   /\ k + Len(matchInfo.suffix) = n
              ELSE IF name[1] = inputWord[1]
              THEN matchInfo.suffix = SubSeq(name, 2, n)
              ELSE matchInfo.suffix = SubSeq(name, Min(k, n) + 1, n)
           /\ (inputWord = <<Shen>> /\ keywords = <<Keyword(ShenZhixia)>>) =>
                 matchInfo.suffix = <<Zhi, Xia>>

\* the example has been computed
C21_Witness ==
    /\ MatchReturned
    /\ inputWord = <<Shen>>
    /\ keywords = <<Keyword(ShenZhixia)>>
    /\ matchInfo # NULL
    /\ matchInfo.bestMatch = Keyword(ShenZhixia)

----------------------------------------------------------------------------
(* Further claims about findAllKeywordMatches, checked under SpecScan *)

ScanDone == pc = "found"

\* the offsets where the name of the keyword occurs literally in the buffer
LiteralOccurrences(keyword) ==
    {i \in 0..(Len(value) - Len(keyword.name)) :
        Substring(value, i, i + Len(keyword.name)) = keyword.name}

\* the spans the scanner returned, and the ones it pushed
ReturnedSpans == {keywordMatches[j] : j \in 1..Len(keywordMatches)}
PushedSpans == {matches[j] : j \in 1..Len(matches)}

\* C22 as stated: every literal occurrence of a keyword with an ideograph is
\* a span of the result of the scanner, the occurrences that overlap another
\* occurrence included
C22_EveryOccurrenceReturned ==
    ScanDone =>
        \A k \in 1..Len(keywords) :
            IsChinese(keywords[k].name) =>
                \A i \in LiteralOccurrences(keywords[k]) :
                    SpanAt(keywords[k], i) \in ReturnedSpans

\* C22 amended: every literal occurrence of a keyword with an ideograph is
\* pushed whatever stands next to it, and is a span of the result unless it
\* overlaps a span of the result that starts no later; the keyword of three
\* ideographs inside the buffer of seven gives exactly the span 2..5
C22_EveryOccurrenceCandidate ==
    ScanDone =>
        /\ \A k \in 1..Len(keywords) :
              IsChinese(keywords[k].name) =>
                  \A i \in LiteralOccurrences(keywords[k]) :
                      /\ SpanAt(keywords[k], i) \in PushedSpans
                      /\ \/ SpanAt(keywords[k], i) \in ReturnedSpans
                         \/ \E kept \in ReturnedSpans :
                               /\ Overlaps(SpanAt(keywords[k], i), kept)
                               /\ kept.start <= i
        /\ (value = TaShuo /\ keywords = <<Keyword(ShenZhixia)>>) =>
              keywordMatches = <<SpanAt(Keyword(ShenZhixia), 2)>>

\* two occurrences of one keyword overlap: the second is pushed and dropped
C22_Witness ==
    /\ ScanDone
    /\ value = <<Shen, Shen, Shen>>
    /\ keywords = <<Keyword(<<Shen, Shen>>)>>
    /\ SpanAt(keywords[1], 1) \in PushedSpans
    /\ keywordMatches = <<SpanAt(keywords[1], 0)>>

\* C25: every span the scanner returns lies in the buffer, is not empty, has
\* the length of its keyword's name, and covers the name: literally for a
\* name with an ideograph, ignoring case otherwise
C25_SpansCoverTheName ==
    ScanDone =>
        \A m \in ReturnedSpans :
            /\ 0 <= m.start
            /\ m.start < m.end
            /\ m.end <= Len(value)
            /\ m.end - m.start = Len(m.keyword.name)
            /\ IF IsChinese(m.keyword.name)
               THEN Substring(value, m.start, m.end) = m.keyword.name
               ELSE ToLowerCase(Substring(value, m.start, m.end)) =
                        ToLowerCase(m.keyword.name)

\* the place of a keyword in the keyword list
KeywordIndex(keyword) == SetMin({k \in 1..Len(keywords) : keywords[k] = keyword})

\* C26: the first accepted occurrence wins: the result holds pushed
\* occurrences only, in ascending order of start and without overlap; an
\* occurrence that is dropped overlaps a kept one that starts no later; of
\* two occurrences with the same start the one of the later keyword of the
\* list is never kept in place of the other
C26_FirstAcceptedWins ==
    ScanDone =>
        /\ ReturnedSpans \subseteq PushedSpans
        /\ \A i, j \in 1..Len(keywordMatches) :
              i < j => /\ keywordMatches[i].start <= keywordMatches[j].start
                       /\ ~Overlaps(keywordMatches[j], keywordMatches[i])
        /\ \A p \in PushedSpans \ ReturnedSpans :
              \E kept \in ReturnedSpans :
                  /\ Overlaps(p, kept)
                  /\ kept.start <= p.start
        /\ \A p \in PushedSpans \ ReturnedSpans, kept \in ReturnedSpans :
              kept.start = p.start =>
                  KeywordIndex(kept.keyword) <= KeywordIndex(p.keyword)

\* two keywords occur at the same offset: the one of the first keyword is
\* kept, the other dropped
C26_Witness ==
    /\ ScanDone
    /\ \E p \in PushedSpans \ ReturnedSpans, kept \in ReturnedSpans :
          /\ kept.start = p.start
          /\ KeywordIndex(kept.keyword) < KeywordIndex(p.keyword)

----------------------------------------------------------------------------
(* Claims about accepting, dismissing and the dropdown, checked under Spec *)

\* a step of acceptSuggestion: only it sets the timer of line 487
Accepts == cursorTimer = NULL /\ cursorTimer' # NULL

\* the keywords a match result can be accepted with
Offers(result) ==
    {result.bestMatch} \cup {result.matches[i] : i \in 1..Len(result.matches)}

\* C23: accepting replaces the value by what is before the fragment, the
\* name of the keyword, a space, and what is after the fragment; nothing
\* outside the fragment changes, no match result is left and the dropdown is
\* closed
C23_AcceptSplices ==
    [][Accepts =>
          /\ \E k \in Offers(matchResult) :
                LET n == Len(value)
                    s == Min(matchResult.start, n)
                    e == Min(matchResult.end, n)
                    m == Len(k.name)
                IN /\ value' = SubSeq(value, 1, s) \o k.name \o <<SP>>
                                   \o SubSeq(value, e + 1, n)
                   /\ Len(value') = s + m + 1 + (n - e)
                   /\ SubSeq(value', 1, s) = SubSeq(value, 1, s)
                   /\ SubSeq(value', s + m + 2, Len(value')) = SubSeq(value, e + 1, n)
          /\ matchResult' = NULL
          /\ ~showDropdown']_vars

\* a keyword accepted for a fragment with text after it
C23_Witness ==
    /\ cursorTimer # NULL
    /\ value = <<"l", SP, "l">>

C27_AcceptedNotStale ==
    [][Accepts =>
          /\ matchResult.end <= Len(value)
          /\ Substring(value, matchResult.start, matchResult.end) =
                 matchResult.currentWord]_vars

\* C28: once Escape has dismissed a suggestion, and as long as the value and
\* the caret stay what they were, no debounce timer is set and no match
\* result comes back
C28_DismissedStaysQuiet ==
    [][(dismissed /\ dismissed') =>
          /\ timers' \subseteq timers
          /\ matchResult' = NULL]_vars

\* C29: while the dropdown is open the selected index is an index of the
\* list of matches; in a list of any length ArrowDown and ArrowUp go round
\* the list and undo each other
C29_SelectedIndexValid ==
    /\ showDropdown =>
          /\ matchResult # NULL
          /\ 0 <= selectedIndex
          /\ selectedIndex < Len(matchResult.matches)
    /\ \A n \in 1..(MaxKeywords + 1) :
          \A i \in 0..(n - 1) :
              /\ ArrowDown(i, n) = (IF i = n - 1 THEN 0 ELSE i + 1)
              /\ ArrowUp(i, n) = (IF i = 0 THEN n - 1 ELSE i - 1)
              /\ ArrowUp(ArrowDown(i, n), n) = i
              /\ ArrowDown(ArrowUp(i, n), n) = i

\* an arrow key has selected the last match of the open dropdown
C29_Witness ==
    /\ DropdownShown
    /\ selectedIndex = Len(matchResult.matches) - 1
    /\ selectedIndex > 0

\* C30: the highlight of an accept stays until the timer of that accept
\* fires. The timers fire in the order they were set, so while a timer is
\* pending the timer of the last accept is, and its highlight is still set
C30_FeedbackOutlivesEarlierTimer == highlightTimers > 0 => highlightedRange # NULL

====
